---- MODULE Spec2Model ----
(***************************************************************************)
(* Model of the Jailhouse hypervisor control core (hypervisor/control.c):  *)
(* the cell list, CPU ownership, memory mappings, the communication-page   *)
(* handshake and the hypercalls that drive them.                           *)
(*                                                                         *)
(* Addresses and sizes are counted in pages.  A memory mapping is a set of *)
(* <<virtual page, physical page>> pairs.  The communication page of the   *)
(* cell allocated at address a is the physical page -a.                    *)
(* Per-CPU statistics counters are not modelled.                           *)
(***************************************************************************)
EXTENDS Integers, Sequences, FiniteSets, TLC

(* ------------------------------ bounds --------------------------------- *)
\* highest CPU id of the system configuration
MaxCpu == 3
\* highest physical page of the root cell's memory
MaxPage == 2
\* number of architecture map/unmap calls that may fail within one hypercall
MaxFaults == 1
\* pages of the main memory pool that are free after hypervisor setup
PoolPages == 5
\* number of CPUs that may be inside a hypercall at the same time
MaxTrapped == 2

(* --------------------------- configuration ----------------------------- *)
CPUS == 0..MaxCpu

NUM_TEMPORARY_PAGES == 16
PAGE_SIZE == 4096
\* sizeof(cell->small_cpu_set.bitmap)
SMALL_CPU_SET_SIZE == 8

MEM_VALID_FLAGS == {"READ", "WRITE", "EXECUTE", "DMA", "COMM_REGION", "LOADABLE"}

\* root_cell.config: two adjacent identity-mapped regions covering 0..MaxPage
root_mem_regions ==
  << [phys_start |-> 0, virt_start |-> 0, size |-> 2, unaligned |-> FALSE,
      flags |-> {"READ", "WRITE", "EXECUTE"}],
     [phys_start |-> 2, virt_start |-> 2, size |-> MaxPage - 1, unaligned |-> FALSE,
      flags |-> {"READ", "WRITE", "EXECUTE"}] >>

root_config == [name |-> "root", cpus |-> CPUS, passive |-> TRUE,
                mem |-> root_mem_regions]

\* address of the statically allocated root cell; other cells live at 1, 2, ...
RootAddr == 0

\* The cell configurations the root cell may hand to CELL_CREATE.
\*  1 "a":    CPU 1, a LOADABLE region spanning both root regions and a
\*            communication region
\*  2 "b":    CPU 2, passive communication region, one plain region whose
\*            physical page also appears in configuration 1
\*  3 "b":    the name of 2, CPU 1 and a CPU that is not in the system
\*  4 "c":    CPU 0 and a CPU that is not in the system
\*  5 "d":    cpu_set_size larger than a page
\*  6 "e":    a region with an unaligned size
\*  7 "f":    a configuration larger than NUM_TEMPORARY_PAGES
\*  8 "root": the root cell's name
\*  9 "g":    CPUs 2 and 3, no memory
\* 10 "h":    a CPU set that needs a page of its own (cpu_set_size beyond the
\*            inline bitmap)
Configs ==
  << [name |-> "a", cpus |-> {1}, cpu_set_size |-> 1, cfg_pages |-> 1,
      passive |-> FALSE,
      mem |-> << [phys_start |-> 1, virt_start |-> 0, size |-> 2,
                  unaligned |-> FALSE, flags |-> {"READ", "WRITE", "LOADABLE"}],
                 [phys_start |-> 0, virt_start |-> 8, size |-> 1,
                  unaligned |-> FALSE, flags |-> {"READ", "WRITE", "COMM_REGION"}] >>],
     [name |-> "b", cpus |-> {2}, cpu_set_size |-> 1, cfg_pages |-> 1,
      passive |-> TRUE,
      mem |-> << [phys_start |-> 2, virt_start |-> 0, size |-> 1,
                  unaligned |-> FALSE, flags |-> {"READ", "WRITE"}] >>],
     [name |-> "b", cpus |-> {1, MaxCpu + 1}, cpu_set_size |-> 1, cfg_pages |-> 1,
      passive |-> FALSE, mem |-> << >>],
     [name |-> "c", cpus |-> {0, MaxCpu + 1}, cpu_set_size |-> 1, cfg_pages |-> 1,
      passive |-> FALSE, mem |-> << >>],
     [name |-> "d", cpus |-> {1}, cpu_set_size |-> PAGE_SIZE + 1, cfg_pages |-> 1,
      passive |-> FALSE, mem |-> << >>],
     [name |-> "e", cpus |-> {1}, cpu_set_size |-> 1, cfg_pages |-> 1,
      passive |-> FALSE,
      mem |-> << [phys_start |-> 1, virt_start |-> 0, size |-> 1,
                  unaligned |-> TRUE, flags |-> {"READ"}] >>],
     [name |-> "f", cpus |-> {1}, cpu_set_size |-> 1,
      cfg_pages |-> NUM_TEMPORARY_PAGES + 1, passive |-> FALSE, mem |-> << >>],
     [name |-> "root", cpus |-> {1}, cpu_set_size |-> 1, cfg_pages |-> 1,
      passive |-> FALSE, mem |-> << >>],
     [name |-> "g", cpus |-> {2, 3}, cpu_set_size |-> 1, cfg_pages |-> 1,
      passive |-> FALSE, mem |-> << >>],
     [name |-> "h", cpus |-> {1}, cpu_set_size |-> SMALL_CPU_SET_SIZE + 1,
      cfg_pages |-> 1, passive |-> FALSE, mem |-> << >>] >>

\* the configurations of the lifecycle specifications, of the panic
\* specification, of the page accounting specification and of the
\* specification with concurrent traps
ConfigIds == 1..8
PanicConfigIds == {1, 9}
PoolConfigIds == {2, 5, 10}
SmpConfigIds == {1}

\* the cell ids passed to the management hypercalls
CellIds == 0..2

CellStates == {"RUNNING", "RUNNING_LOCKED", "SHUT_DOWN", "FAILED"}
Messages == {"NONE", "SHUTDOWN_REQUEST", "RECONFIG_COMPLETED"}
\* "DENIED" stands for every guest-defined reply other than the three named ones
Replies == {"NONE", "REQUEST_APPROVED", "RECEIVED", "DENIED"}

(* ------------------------ architecture interface ----------------------- *)
\* the <<virt, phys>> pairs a region descriptor stands for
RegionPages(mem) ==
  {<<mem.virt_start + i, mem.phys_start + i>> : i \in 0..(mem.size - 1)}

VirtRange(mem) == {mem.virt_start + i : i \in 0..(mem.size - 1)}

\* the region as the architecture maps it into the cell at address addr:
\* a COMM_REGION is backed by the cell's own communication page
ArchRegion(addr, mem) ==
  IF "COMM_REGION" \in mem.flags
    THEN [mem EXCEPT !.phys_start = 0 - addr]
    ELSE mem

arch_map_memory_region(map, addr, mem) ==
  {p \in map : p[1] \notin VirtRange(mem)} \cup RegionPages(ArchRegion(addr, mem))

arch_unmap_memory_region(map, mem) ==
  {p \in map : p[1] \notin VirtRange(mem)}

(* --------------------------- memory mapper ----------------------------- *)
\* A fault plan F is the set of architecture map/unmap calls that fail in the
\* hypercall at hand: <<1, n, 0>> the unmap of region n from the root cell,
\* <<2, n, 0>> the mapping of region n into its cell, <<3, n, r>> the mapping
\* of the overlap of region n with root region r into the root cell.
FaultSites(mem) ==
  {<<k, n, 0>> : k \in {1, 2}, n \in 1..Len(mem)}
    \cup {<<3, n, r>> : n \in 1..Len(mem), r \in 1..Len(root_mem_regions)}

\* the plans with at most MaxFaults failures among the calls of the given kinds
FaultPlans(mem, kinds) ==
  {F \in SUBSET {f \in FaultSites(mem) : f[1] \in kinds} : Cardinality(F) <= MaxFaults}

address_in_region(addr, region) ==
  addr >= region.phys_start /\ addr < region.phys_start + region.size

unmap_from_root_cell(rmap, mem) ==
  arch_unmap_memory_region(rmap, [mem EXCEPT !.virt_start = mem.phys_start])

\* the overlap descriptor of lines 230-247; only used when one of the two
\* address_in_region tests holds
overlap_of(mem, root_mem) ==
  LET first == address_in_region(mem.phys_start, root_mem)
      ps == IF first THEN mem.phys_start ELSE root_mem.phys_start
      sz == IF first THEN root_mem.size - (ps - root_mem.phys_start)
                     ELSE mem.size - (ps - mem.phys_start)
      cap == IF first THEN mem.size ELSE root_mem.size
  IN [phys_start |-> ps,
      size |-> IF sz > cap THEN cap ELSE sz,
      virt_start |-> root_mem.virt_start + ps - root_mem.phys_start,
      unaligned |-> FALSE,
      flags |-> root_mem.flags]

RECURSIVE remap_loop(_, _, _, _, _, _, _)
remap_loop(rmap, mem, mode, n, F, r, err) ==
  IF r > Len(root_mem_regions) THEN [root_map |-> rmap, err |-> err]
  ELSE LET root_mem == root_mem_regions[r] IN
    IF ~(address_in_region(mem.phys_start, root_mem)
         \/ address_in_region(root_mem.phys_start, mem))
      THEN remap_loop(rmap, mem, mode, n, F, r + 1, err)
    ELSE IF <<3, n, r>> \in F
      THEN IF mode = "ABORT_ON_ERROR"
             THEN [root_map |-> rmap, err |-> "ENOMEM"]
             ELSE remap_loop(rmap, mem, mode, n, F, r + 1, "ENOMEM")
    ELSE remap_loop(arch_map_memory_region(rmap, RootAddr, overlap_of(mem, root_mem)),
                    mem, mode, n, F, r + 1, "OK")

\* region n of a cell configuration back into the root cell
remap_to_root_cell(rmap, mem, mode, n, F) ==
  remap_loop(rmap, mem, mode, n, F, 1, "OK")

check_mem_regions(config) ==
  IF \E n \in 1..Len(config.mem) :
       config.mem[n].unaligned \/ ~(config.mem[n].flags \subseteq MEM_VALID_FLAGS)
    THEN "EINVAL" ELSE "OK"

(* ---------------------------- cell registry ---------------------------- *)
RootCell == [addr |-> RootAddr, id |-> 0, name |-> root_config.name,
             cell_state |-> "RUNNING"]

CellAddrs(cs) == {cs[i].addr : i \in DOMAIN cs}

\* the index on the list of the cell at address addr
CellIndex(cs, addr) == CHOOSE i \in DOMAIN cs : cs[i].addr = addr

RECURSIVE first_free(_, _)
first_free(used, n) == IF n \in used THEN first_free(used, n + 1) ELSE n

\* variant: the id after the id of the last cell of the list
get_free_cell_id_last(cs) == IF cs = << >> THEN 1 ELSE cs[Len(cs)].id + 1

\* variant: the id is the number of non-root cells plus one
get_free_cell_id_count(cs) == Len(cs) + 1

get_free_cell_id(cs) ==
  first_free({RootCell.id} \cup {cs[i].id : i \in DOMAIN cs}, 0)

\* page_alloc(&mem_pool, ...) for a cell structure: the lowest free address
alloc_cell_addr(cs) == first_free({RootAddr} \cup CellAddrs(cs), 0)

\* PAGE_ALIGN(sizeof(*cell) + cfg_total_size) / PAGE_SIZE: the cell structure
\* takes one page more than its configuration
cell_pages(config) == config.cfg_pages + 1

\* variant: a locked cell does not veto
cell_reconfig_ok_unlocked(cs, excluded_cell) == TRUE

cell_reconfig_ok(cs, excluded_cell) ==
  \A i \in DOMAIN cs :
    cs[i].addr = excluded_cell \/ cs[i].cell_state # "RUNNING_LOCKED"

(* ------------------------- messaging / handshake ----------------------- *)
jailhouse_send_msg_to_cell(cell, message) ==
  [cell EXCEPT !.reply_from_cell = "NONE", !.msg_to_cell = message]

\* cell_send_message up to the poll loop: the message is written unless the
\* cell has a passive communication region
cell_send_message_write(cell, message) ==
  IF Configs[cell.cfg].passive THEN cell
  ELSE jailhouse_send_msg_to_cell(cell, message)

\* variant: every named reply answers every message type
cell_send_message_poll_untyped(cell, type) ==
  IF Configs[cell.cfg].passive THEN "true"
  ELSE IF cell.cell_state \in {"SHUT_DOWN", "FAILED"} THEN "true"
  ELSE IF cell.reply_from_cell \in {"REQUEST_APPROVED", "RECEIVED"} THEN "true"
  ELSE IF cell.reply_from_cell # "NONE" THEN "false"
  ELSE "again"

\* one evaluation of the poll loop of cell_send_message:
\* "true", "false", or "again" when the loop goes round once more
cell_send_message_poll(cell, type) ==
  IF Configs[cell.cfg].passive THEN "true"
  ELSE IF cell.cell_state \in {"SHUT_DOWN", "FAILED"} THEN "true"
  ELSE IF \/ type = "MSG_REQUEST" /\ cell.reply_from_cell = "REQUEST_APPROVED"
          \/ type = "MSG_INFORMATION" /\ cell.reply_from_cell = "RECEIVED"
    THEN "true"
  ELSE IF cell.reply_from_cell # "NONE" THEN "false"
  ELSE "again"

(* -------------------------------- state -------------------------------- *)
VARIABLES
  root_cpu_set,    \* root_cell.cpu_set
  root_map,        \* the root cell's memory mapping
  cells,           \* the non-root cells in list order (root_cell.next, ...)
  num_cells,
  used_pages,      \* mem_pool.used_pages beyond the pages taken at setup
  cpu_cell,        \* per_cpu(cpu)->cell, as the cell's address
  failed,          \* per_cpu(cpu)->failed
  shutdown_state,  \* per_cpu(cpu)->shutdown_state
  cpu_mode,        \* what the CPU executes: "running", "parked", "halted", "off"
  suspended,       \* the CPUs stopped by arch_suspend_cpu and not yet resumed
  hc,              \* the hypercall in progress and its result
  pre,             \* history: the state before the last successful CELL_CREATE
                   \* or CELL_SET_LOADABLE, forgotten when another call follows
  in_hypercall     \* the hypercall each CPU has trapped into and not yet left
                   \* ("none" when it is in none), where CPUs trap concurrently

vars == <<root_cpu_set, root_map, cells, num_cells, used_pages, cpu_cell,
          failed, shutdown_state, cpu_mode, suspended, hc, pre, in_hypercall>>

\* no hypercall in progress
Idle == [op |-> "none", cpu |-> 0, arg |-> 0, stage |-> "idle", target |-> RootAddr,
         idx |-> 0, state |-> "NONE", susp |-> {}, err |-> "OK", val |-> 0]

\* the hypercall has returned err (val is the non-negative result when err = "OK")
Returned(op, cpu, arg, susp, err, val) ==
  [op |-> op, cpu |-> cpu, arg |-> arg, stage |-> "ret", target |-> RootAddr,
   idx |-> 0, state |-> "NONE", susp |-> susp, err |-> err, val |-> val]

\* nothing remembered
NoSnap == [op |-> "none", addr |-> RootAddr, id |-> 0, root_cpu_set |-> {},
           root_map |-> {}, used_pages |-> 0]

\* a snapshot outlives the next hypercall only when that is the second half
\* of one of these pairs, on the same cell
SnapPairs == {<<"CELL_CREATE", "CELL_DESTROY">>, <<"CELL_SET_LOADABLE", "CELL_START">>}

\* the state a successful op on the cell at addr (with id) starts from
Snapshot(op, addr, id) ==
  [op |-> op, addr |-> addr, id |-> id, root_cpu_set |-> root_cpu_set,
   root_map |-> root_map, used_pages |-> used_pages]

Init ==
  /\ root_cpu_set = CPUS
  /\ root_map = UNION {RegionPages(root_mem_regions[r]) : r \in DOMAIN root_mem_regions}
  /\ cells = << >>
  /\ num_cells = 1
  /\ used_pages = 0
  /\ cpu_cell = [cpu \in CPUS |-> RootAddr]
  /\ failed = [cpu \in CPUS |-> FALSE]
  /\ shutdown_state = [cpu \in CPUS |-> "NONE"]
  /\ cpu_mode = [cpu \in CPUS |-> "running"]
  /\ suspended = {}
  /\ hc = Idle
  /\ pre = NoSnap
  /\ in_hypercall = [cpu \in CPUS |-> "none"]

\* a CPU can trap into the hypervisor when it executes guest code
CanCall(cpu) ==
  /\ hc.stage = "idle"
  /\ cpu_mode[cpu] = "running"
  /\ cpu \notin suspended

\* variant: no permission check
in_root_cell_anyone(cpu) == TRUE

\* the permission check of lines 302, 451, 599 and 632
in_root_cell(cpu) == cpu_cell[cpu] = RootAddr

\* arch_shutdown() has not run: the hypervisor still serves every hypercall
InService == \A cpu \in CPUS : cpu_mode[cpu] # "off"

(* ----------------------- suspend/resume orchestrator ------------------- *)
\* variant: cell_suspend stops no CPU
cell_suspend_nobody(cpu_set, cpu) == {}

\* the CPUs cell_suspend stops: those of the set except the caller
cell_suspend(cpu_set, cpu) == cpu_set \ {cpu}

\* arch_suspend_cpu returns for each of these CPUs: a CPU acknowledges the
\* suspension only outside of a hypercall
arch_suspend_cpu(cpus) == \A x \in cpus : in_hypercall[x] = "none"

\* variant: nothing is resumed
cell_resume_none(susp, rcpus, cpu) == susp

\* cell_resume: arch_resume_cpu on the CPUs of the caller's cell (the root
\* cell for every caller that gets this far) except the caller
cell_resume(susp, rcpus, cpu) == susp \ (rcpus \ {cpu})

\* arch_park_cpu and arch_reset_cpu take a stopped CPU out of suspension into
\* the parked state and into the reset (running) state
arch_park_cpu(mode, cpus) == [c \in CPUS |-> IF c \in cpus THEN "parked" ELSE mode[c]]
arch_reset_cpu(mode, cpus) == [c \in CPUS |-> IF c \in cpus THEN "running" ELSE mode[c]]

(* --------------------------- cell_create ------------------------------- *)
\* variant: the loop of lines 390-405 stops one region early
RECURSIVE create_map_loop_short(_, _, _, _, _, _)
create_map_loop_short(rmap, cmap, addr, mem, n, F) ==
  IF n >= Len(mem) THEN [root_map |-> rmap, map |-> cmap, err |-> "OK"]
  ELSE LET comm == "COMM_REGION" \in mem[n].flags
           rmap1 == IF comm THEN rmap ELSE unmap_from_root_cell(rmap, mem[n])
       IN IF ~comm /\ <<1, n, 0>> \in F
            THEN [root_map |-> rmap, map |-> cmap, err |-> "ENOMEM"]
          ELSE IF <<2, n, 0>> \in F
            THEN [root_map |-> rmap1, map |-> cmap, err |-> "ENOMEM"]
          ELSE create_map_loop_short(rmap1, arch_map_memory_region(cmap, addr, mem[n]),
                                     addr, mem, n + 1, F)

\* lines 390-405: unmap each region from the root cell, map it into the cell
RECURSIVE create_map_loop(_, _, _, _, _, _)
create_map_loop(rmap, cmap, addr, mem, n, F) ==
  IF n > Len(mem) THEN [root_map |-> rmap, map |-> cmap, err |-> "OK"]
  ELSE LET comm == "COMM_REGION" \in mem[n].flags
           rmap1 == IF comm THEN rmap ELSE unmap_from_root_cell(rmap, mem[n])
       IN IF ~comm /\ <<1, n, 0>> \in F
            THEN [root_map |-> rmap, map |-> cmap, err |-> "ENOMEM"]
          ELSE IF <<2, n, 0>> \in F
            THEN [root_map |-> rmap1, map |-> cmap, err |-> "ENOMEM"]
          ELSE create_map_loop(rmap1, arch_map_memory_region(cmap, addr, mem[n]),
                               addr, mem, n + 1, F)

\* lines 275-283: unmap each region from the cell, remap it to the root cell
RECURSIVE destroy_map_loop(_, _, _, _, _)
destroy_map_loop(rmap, cmap, mem, n, F) ==
  IF n > Len(mem) THEN [root_map |-> rmap, map |-> cmap]
  ELSE destroy_map_loop(
         IF "COMM_REGION" \in mem[n].flags THEN rmap
         ELSE remap_to_root_cell(rmap, mem[n], "WARN_ON_ERROR", n, F).root_map,
         arch_unmap_memory_region(cmap, mem[n]), mem, n + 1, F)

\* the machine state cell_destroy_internal leaves behind for the cell
\* (cpu_set, config, map) given root CPU set rcpus, root mapping rmap and the
\* per-CPU fields pcell, pfailed, pmode
cell_destroy_internal(rcpus, rmap, pcell, pfailed, pmode, cell, F) ==
  LET maps == destroy_map_loop(rmap, cell.map, Configs[cell.cfg].mem, 1, F)
  IN [root_cpu_set |-> rcpus \cup cell.cpu_set,
      cpu_cell |-> [c \in CPUS |-> IF c \in cell.cpu_set THEN RootAddr ELSE pcell[c]],
      failed |-> [c \in CPUS |-> IF c \in cell.cpu_set THEN FALSE ELSE pfailed[c]],
      cpu_mode |-> arch_park_cpu(pmode, cell.cpu_set),
      root_map |-> maps.root_map,
      map |-> maps.map]

\* failures of the environment on the create path: mapping the configuration
\* header (line 314), mapping the whole configuration (line 336), page_alloc
\* for the cell (line 347) and for a large CPU set (line 159), arch_cell_create
CreateFaults == {"none", "cfg_header", "cfg_full", "page_alloc", "cpu_set_alloc",
                 "arch_cell_create"}

\* cell_init: the error it returns, and whether it takes a page for the CPU set
cell_init(config, pool_used, env) ==
  IF config.cpu_set_size > PAGE_SIZE THEN [err |-> "EINVAL", pages |-> 0]
  ELSE IF config.cpu_set_size > SMALL_CPU_SET_SIZE
    THEN IF env = "cpu_set_alloc" \/ pool_used + 1 > PoolPages
           THEN [err |-> "ENOMEM", pages |-> 0]
           ELSE [err |-> "OK", pages |-> 1]
  ELSE [err |-> "OK", pages |-> 0]

\* variant: the super-set test of lines 368-372 is left out
root_owns_cpus_unchecked(rcpus, cpus) == TRUE

\* lines 368-372: the root cell's CPU set is a super-set of the new cell's
root_owns_cpus(rcpus, cpus) == \A x \in cpus : x \in rcpus

\* everything cell_create does between cell_suspend(&root_cell) and either
\* cell_reconfig_completed() or err_resume, for a caller in the root cell
create_outcome(cpu, c, env, F) ==
  LET config == Configs[c]
      addr == alloc_cell_addr(cells)
      pages == cell_pages(config)
      init == cell_init(config, used_pages + pages, env)
      rcpus1 == root_cpu_set \ config.cpus
      pcell1 == [x \in CPUS |-> IF x \in config.cpus THEN addr ELSE cpu_cell[x]]
      pmode1 == arch_park_cpu(cpu_mode, config.cpus)
      maps == create_map_loop(root_map, {}, addr, config.mem, 1, F)
      cell == [addr |-> addr, id |-> get_free_cell_id(cells), cfg |-> c,
               cpu_set |-> config.cpus, cpu_set_pages |-> init.pages,
               data_pages |-> pages, loadable |-> FALSE,
               cell_state |-> "SHUT_DOWN", msg_to_cell |-> "NONE",
               reply_from_cell |-> "NONE", map |-> maps.map]
      undo == cell_destroy_internal(rcpus1, maps.root_map, pcell1, failed, pmode1,
                                    cell, F)
      fail(e) == [err |-> e, root_cpu_set |-> root_cpu_set, root_map |-> root_map,
                  cells |-> cells, num_cells |-> num_cells, used_pages |-> used_pages,
                  cpu_cell |-> cpu_cell, failed |-> failed, cpu_mode |-> cpu_mode,
                  parked |-> {}]
  IN
  IF ~cell_reconfig_ok(cells, RootAddr) THEN fail("EPERM")
  ELSE IF env = "cfg_header" THEN fail("ENOMEM")
  ELSE IF config.name = RootCell.name
          \/ \E i \in DOMAIN cells : Configs[cells[i].cfg].name = config.name
    THEN fail("EEXIST")
  ELSE IF config.cfg_pages > NUM_TEMPORARY_PAGES THEN fail("E2BIG")
  ELSE IF env = "cfg_full" THEN fail("ENOMEM")
  ELSE IF check_mem_regions(config) # "OK" THEN fail(check_mem_regions(config))
  ELSE IF env = "page_alloc" \/ used_pages + pages > PoolPages THEN fail("ENOMEM")
  ELSE IF init.err # "OK" THEN fail(init.err)
  ELSE IF cpu \in config.cpus THEN fail("EBUSY")
  ELSE IF ~root_owns_cpus(root_cpu_set, config.cpus) THEN fail("EBUSY")
  ELSE IF env = "arch_cell_create" THEN fail("ENOMEM")
  ELSE IF maps.err # "OK"
    THEN [err |-> maps.err, root_cpu_set |-> undo.root_cpu_set,
          root_map |-> undo.root_map, cells |-> cells, num_cells |-> num_cells,
          used_pages |-> used_pages, cpu_cell |-> undo.cpu_cell,
          failed |-> undo.failed, cpu_mode |-> undo.cpu_mode,
          parked |-> config.cpus]
  ELSE [err |-> "OK", root_cpu_set |-> rcpus1, root_map |-> maps.root_map,
        cells |-> Append(cells, cell), num_cells |-> num_cells + 1,
        used_pages |-> used_pages + pages + init.pages, cpu_cell |-> pcell1,
        failed |-> failed, cpu_mode |-> pmode1, parked |-> config.cpus]

\* CELL_CREATE up to cell_reconfig_completed() (line 417), or to its return
\* when it fails
cell_create(cpu, c, env, F) ==
  /\ CanCall(cpu)
  /\ InService
  /\ IF ~in_root_cell(cpu)
       THEN /\ hc' = Returned("CELL_CREATE", cpu, c, {}, "EPERM", 0)
            /\ pre' = NoSnap
            /\ UNCHANGED <<root_cpu_set, root_map, cells, num_cells, used_pages,
                           cpu_cell, failed, cpu_mode, suspended>>
       ELSE LET o == create_outcome(cpu, c, env, F)
                susp == cell_suspend(root_cpu_set, cpu)
            IN /\ root_cpu_set' = o.root_cpu_set
               /\ root_map' = o.root_map
               /\ cells' = o.cells
               /\ num_cells' = o.num_cells
               /\ used_pages' = o.used_pages
               /\ cpu_cell' = o.cpu_cell
               /\ failed' = o.failed
               /\ cpu_mode' = o.cpu_mode
               /\ IF o.err = "OK"
                    THEN /\ suspended' = susp \ o.parked
                         /\ hc' = [Idle EXCEPT !.op = "CELL_CREATE", !.cpu = cpu,
                                     !.arg = c, !.stage = "reconfig",
                                     !.target = o.cells[Len(o.cells)].addr,
                                     !.idx = 1, !.susp = susp,
                                     !.val = o.cells[Len(o.cells)].id]
                         /\ pre' = Snapshot("CELL_CREATE", o.cells[Len(o.cells)].addr,
                                            o.cells[Len(o.cells)].id)
                    ELSE /\ suspended' = cell_resume(susp \ o.parked, o.root_cpu_set, cpu)
                         /\ hc' = Returned("CELL_CREATE", cpu, c, susp, o.err, 0)
                         /\ pre' = NoSnap
  /\ UNCHANGED <<shutdown_state, in_hypercall>>

(* ----------------------- cell_reconfig_completed ----------------------- *)
\* cell_send_message(cell, RECONFIG_COMPLETED, MSG_INFORMATION) writes the
\* message into the communication page of the next cell of the list
reconfig_send ==
  /\ hc.stage = "reconfig"
  /\ hc.idx <= Len(cells)
  /\ cells' = [cells EXCEPT ![hc.idx] =
                 cell_send_message_write(cells[hc.idx], "RECONFIG_COMPLETED")]
  /\ hc' = [hc EXCEPT !.stage = "reconfig_poll"]
  /\ UNCHANGED <<root_cpu_set, root_map, num_cells, used_pages, cpu_cell, failed,
                 shutdown_state, in_hypercall, cpu_mode, suspended, pre>>

\* the poll loop of that cell_send_message ends (its result is ignored)
reconfig_poll ==
  /\ hc.stage = "reconfig_poll"
  /\ cell_send_message_poll(cells[hc.idx], "MSG_INFORMATION") # "again"
  /\ hc' = [hc EXCEPT !.stage = "reconfig", !.idx = hc.idx + 1]
  /\ UNCHANGED <<root_cpu_set, root_map, cells, num_cells, used_pages, cpu_cell,
                 failed, shutdown_state, in_hypercall, cpu_mode, suspended, pre>>

\* the end of cell_create and cell_destroy: cell_resume and return
reconfig_done ==
  /\ hc.stage = "reconfig"
  /\ hc.idx > Len(cells)
  /\ suspended' = cell_resume(suspended, root_cpu_set, hc.cpu)
  /\ hc' = Returned(hc.op, hc.cpu, hc.arg, hc.susp, "OK", hc.val)
  /\ UNCHANGED <<root_cpu_set, root_map, cells, num_cells, used_pages, cpu_cell,
                 failed, shutdown_state, in_hypercall, cpu_mode, pre>>

(* --------------------- cell_management_prologue ------------------------ *)
\* the first cell of the list (root first) whose id is id, as its address;
\* -1 stands for the NULL the loop of lines 456-458 ends with
find_cell(cs, id) ==
  IF RootCell.id = id THEN RootAddr
  ELSE IF \E i \in DOMAIN cs : cs[i].id = id
    THEN cs[CHOOSE i \in DOMAIN cs :
              cs[i].id = id /\ \A j \in DOMAIN cs : cs[j].id = id => i <= j].addr
  ELSE -1

\* cell_management_prologue up to the poll loop of cell_shutdown_ok, or to
\* its return when it fails before; the caller returns that error at once
cell_management_prologue(task, cpu, id) ==
  /\ CanCall(cpu)
  /\ InService
  /\ LET susp == cell_suspend(root_cpu_set, cpu)
         addr == find_cell(cells, id)
         err == IF ~in_root_cell(cpu) THEN "EPERM"
                ELSE IF addr = -1 THEN "ENOENT"
                ELSE IF addr = RootAddr THEN "EINVAL"
                ELSE IF task = "CELL_DESTROY" /\ ~cell_reconfig_ok(cells, addr)
                  THEN "EPERM"
                ELSE "OK"
     IN IF err # "OK"
          THEN /\ hc' = Returned(task, cpu, id,
                                 IF ~in_root_cell(cpu) THEN {} ELSE susp, err, 0)
               /\ pre' = NoSnap
               /\ UNCHANGED <<cells, suspended>>
          ELSE /\ cells' = [cells EXCEPT ![CellIndex(cells, addr)] =
                              cell_send_message_write(@, "SHUTDOWN_REQUEST")]
               /\ suspended' = susp
               /\ hc' = [Idle EXCEPT !.op = task, !.cpu = cpu, !.arg = id,
                           !.stage = "shutdown_ok", !.target = addr, !.susp = susp]
               /\ pre' = IF pre.addr = addr /\ <<pre.op, task>> \in SnapPairs
                           THEN pre ELSE NoSnap
  /\ UNCHANGED <<root_cpu_set, root_map, num_cells, used_pages, cpu_cell, failed,
                 shutdown_state, in_hypercall, cpu_mode>>

\* cell_shutdown_ok returned false: lines 473-474
prologue_denied ==
  /\ hc.stage = "shutdown_ok"
  /\ hc.op \in {"CELL_START", "CELL_SET_LOADABLE", "CELL_DESTROY"}
  /\ cell_send_message_poll(cells[CellIndex(cells, hc.target)], "MSG_REQUEST") = "false"
  /\ suspended' = cell_resume(suspended, root_cpu_set, hc.cpu)
  /\ hc' = Returned(hc.op, hc.cpu, hc.arg, hc.susp, "EPERM", 0)
  /\ pre' = NoSnap
  /\ UNCHANGED <<root_cpu_set, root_map, cells, num_cells, used_pages, cpu_cell,
                 failed, shutdown_state, in_hypercall, cpu_mode>>

\* cell_shutdown_ok returned true for the task: the prologue suspends the cell
PrologueDone(task) ==
  /\ hc.stage = "shutdown_ok"
  /\ hc.op = task
  /\ cell_send_message_poll(cells[CellIndex(cells, hc.target)], "MSG_REQUEST") = "true"

\* the memory regions of the cell the hypercall in progress manages
TargetMem ==
  IF hc.stage = "shutdown_ok" /\ hc.target \in CellAddrs(cells)
    THEN Configs[cells[CellIndex(cells, hc.target)].cfg].mem
    ELSE << >>

(* ----------------------------- cell_start ------------------------------ *)
\* lines 496-501: unmap the LOADABLE regions from the root cell
RECURSIVE start_unmap_loop(_, _, _, _)
start_unmap_loop(rmap, mem, n, F) ==
  IF n > Len(mem) THEN [root_map |-> rmap, err |-> "OK"]
  ELSE IF "LOADABLE" \notin mem[n].flags THEN start_unmap_loop(rmap, mem, n + 1, F)
  ELSE IF <<1, n, 0>> \in F THEN [root_map |-> rmap, err |-> "ENOMEM"]
  ELSE start_unmap_loop(unmap_from_root_cell(rmap, mem[n]), mem, n + 1, F)

\* cell_start after its prologue
cell_start(F) ==
  /\ PrologueDone("CELL_START")
  /\ LET i == CellIndex(cells, hc.target)
         cell == cells[i]
         susp == suspended \cup cell_suspend(cell.cpu_set, hc.cpu)
         un == IF cell.loadable
                 THEN start_unmap_loop(root_map, Configs[cell.cfg].mem, 1, F)
                 ELSE [root_map |-> root_map, err |-> "OK"]
     IN /\ root_map' = un.root_map
        /\ IF un.err # "OK"
             THEN /\ suspended' = cell_resume(susp, root_cpu_set, hc.cpu)
                  /\ UNCHANGED <<cells, failed, cpu_mode>>
             ELSE /\ cells' = [cells EXCEPT ![i].loadable = FALSE,
                                             ![i].cell_state = "RUNNING",
                                             ![i].msg_to_cell = "NONE"]
                  /\ failed' = [c \in CPUS |-> IF c \in cell.cpu_set THEN FALSE
                                               ELSE failed[c]]
                  /\ cpu_mode' = arch_reset_cpu(cpu_mode, cell.cpu_set)
                  /\ suspended' = cell_resume(susp \ cell.cpu_set, root_cpu_set, hc.cpu)
        /\ hc' = Returned(hc.op, hc.cpu, hc.arg, hc.susp \cup susp, un.err, 0)
  /\ UNCHANGED <<root_cpu_set, num_cells, used_pages, cpu_cell, shutdown_state, in_hypercall, pre>>

(* -------------------------- cell_set_loadable -------------------------- *)
\* lines 549-554: map the LOADABLE regions into the root cell
RECURSIVE loadable_remap_loop(_, _, _, _)
loadable_remap_loop(rmap, mem, n, F) ==
  IF n > Len(mem) THEN [root_map |-> rmap, err |-> "OK"]
  ELSE IF "LOADABLE" \notin mem[n].flags THEN loadable_remap_loop(rmap, mem, n + 1, F)
  ELSE LET re == remap_to_root_cell(rmap, mem[n], "ABORT_ON_ERROR", n, F)
       IN IF re.err # "OK" THEN re
          ELSE loadable_remap_loop(re.root_map, mem, n + 1, F)

\* variant: the test of line 541 is left out, a loadable cell is remapped again
cell_set_loadable_again(F) ==
  /\ PrologueDone("CELL_SET_LOADABLE")
  /\ LET i == CellIndex(cells, hc.target)
         cell == cells[i]
         susp == suspended \cup cell_suspend(cell.cpu_set, hc.cpu)
         re == loadable_remap_loop(root_map, Configs[cell.cfg].mem, 1, F)
     IN /\ failed' = [c \in CPUS |-> IF c \in cell.cpu_set THEN FALSE ELSE failed[c]]
        /\ cpu_mode' = arch_park_cpu(cpu_mode, cell.cpu_set)
        /\ cells' = [cells EXCEPT ![i].cell_state = "SHUT_DOWN", ![i].loadable = TRUE]
        /\ root_map' = re.root_map
        /\ suspended' = cell_resume(susp \ cell.cpu_set, root_cpu_set, hc.cpu)
        /\ hc' = Returned(hc.op, hc.cpu, hc.arg, hc.susp \cup susp, re.err, 0)
        /\ pre' = NoSnap
  /\ UNCHANGED <<root_cpu_set, num_cells, used_pages, cpu_cell, shutdown_state, in_hypercall>>

\* cell_set_loadable after its prologue
cell_set_loadable(F) ==
  /\ PrologueDone("CELL_SET_LOADABLE")
  /\ LET i == CellIndex(cells, hc.target)
         cell == cells[i]
         susp == suspended \cup cell_suspend(cell.cpu_set, hc.cpu)
         re == IF cell.loadable
                 THEN [root_map |-> root_map, err |-> "OK"]
                 ELSE loadable_remap_loop(root_map, Configs[cell.cfg].mem, 1, F)
     IN /\ failed' = [c \in CPUS |-> IF c \in cell.cpu_set THEN FALSE ELSE failed[c]]
        /\ cpu_mode' = arch_park_cpu(cpu_mode, cell.cpu_set)
        /\ cells' = IF cell.loadable THEN cells
                    ELSE [cells EXCEPT ![i].cell_state = "SHUT_DOWN",
                                       ![i].loadable = TRUE]
        /\ root_map' = re.root_map
        /\ suspended' = cell_resume(susp \ cell.cpu_set, root_cpu_set, hc.cpu)
        /\ hc' = Returned(hc.op, hc.cpu, hc.arg, hc.susp \cup susp, re.err, 0)
        /\ pre' = IF ~cell.loadable /\ re.err = "OK"
                    THEN Snapshot("CELL_SET_LOADABLE", cell.addr, cell.id)
                    ELSE NoSnap
  /\ UNCHANGED <<root_cpu_set, num_cells, used_pages, cpu_cell, shutdown_state, in_hypercall>>

(* ---------------------------- cell_destroy ----------------------------- *)
\* the list without the cell at index i (lines 579-582)
unlink(cs, i) == [j \in 1..(Len(cs) - 1) |-> IF j < i THEN cs[j] ELSE cs[j + 1]]

\* cell_destroy after its prologue, up to cell_reconfig_completed()
cell_destroy(F) ==
  /\ PrologueDone("CELL_DESTROY")
  /\ LET i == CellIndex(cells, hc.target)
         cell == cells[i]
         susp == suspended \cup cell_suspend(cell.cpu_set, hc.cpu)
         d == cell_destroy_internal(root_cpu_set, root_map, cpu_cell, failed,
                                    cpu_mode, cell, F)
     IN /\ root_cpu_set' = d.root_cpu_set
        /\ root_map' = d.root_map
        /\ cpu_cell' = d.cpu_cell
        /\ failed' = d.failed
        /\ cpu_mode' = d.cpu_mode
        /\ cells' = unlink(cells, i)
        /\ num_cells' = num_cells - 1
        /\ used_pages' = used_pages - cell.data_pages
        /\ suspended' = susp \ cell.cpu_set
        /\ hc' = [hc EXCEPT !.stage = "reconfig", !.idx = 1,
                            !.susp = hc.susp \cup susp]
  /\ UNCHANGED <<shutdown_state, in_hypercall, pre>>

(* ---------------------------- introspection --------------------------- *)
\* the communication-page state of the first cell of the list with this id
state_of(cs, id) ==
  IF RootCell.id = id THEN RootCell.cell_state
  ELSE cs[CellIndex(cs, find_cell(cs, id))].cell_state

cell_get_state(cpu, id) ==
  /\ CanCall(cpu)
  /\ InService
  /\ hc' = IF ~in_root_cell(cpu)
             THEN Returned("CELL_GET_STATE", cpu, id, {}, "EPERM", 0)
           ELSE IF find_cell(cells, id) = -1
             THEN Returned("CELL_GET_STATE", cpu, id, {}, "ENOENT", 0)
           ELSE IF state_of(cells, id) \in CellStates
             THEN [Returned("CELL_GET_STATE", cpu, id, {}, "OK", 0)
                     EXCEPT !.state = state_of(cells, id)]
           ELSE Returned("CELL_GET_STATE", cpu, id, {}, "EINVAL", 0)
  /\ UNCHANGED <<root_cpu_set, root_map, cells, num_cells, used_pages, cpu_cell,
                 failed, shutdown_state, in_hypercall, cpu_mode, suspended>>
  /\ pre' = NoSnap

\* the queries on the main pool and the cell count (the remap pool is not
\* modelled); arg 1 asks for the used pages, arg 2 for the number of cells
hypervisor_get_info(cpu, type) ==
  /\ CanCall(cpu)
  /\ InService
  /\ hc' = IF type = 1
             THEN Returned("HYPERVISOR_GET_INFO", cpu, type, {}, "OK", used_pages)
           ELSE IF type = 2
             THEN Returned("HYPERVISOR_GET_INFO", cpu, type, {}, "OK", num_cells)
           ELSE Returned("HYPERVISOR_GET_INFO", cpu, type, {}, "EINVAL", 0)
  /\ UNCHANGED <<root_cpu_set, root_map, cells, num_cells, used_pages, cpu_cell,
                 failed, shutdown_state, in_hypercall, cpu_mode, suspended>>
  /\ pre' = NoSnap

(* ------------------------------ shutdown ------------------------------- *)
\* variant: the tear-down of lines 646-656 finds no CPU to release
NonRootCpus_none(cs) == {}

\* the CPUs of the non-root cells
NonRootCpus(cs) == UNION {cs[i].cpu_set : i \in DOMAIN cs}

\* variant: line 672 is left out, the caller keeps its stamp
shutdown_return_keep(cpu, stamps, susp) ==
  /\ shutdown_state' = stamps
  /\ hc' = Returned("DISABLE", cpu, 0, susp,
                    IF stamps[cpu] = "STARTED" THEN "OK" ELSE stamps[cpu], 0)

\* lines 667-676: the caller reads its stamp, clears it and returns; a CPU
\* that returns 0 has left the hypervisor
shutdown_return(cpu, stamps, susp) ==
  /\ shutdown_state' = [stamps EXCEPT ![cpu] = "NONE"]
  /\ hc' = Returned("DISABLE", cpu, 0, susp,
                    IF stamps[cpu] = "STARTED" THEN "OK" ELSE stamps[cpu], 0)

\* DISABLE up to the first cell_shutdown_ok, or to its return
shutdown(cpu) ==
  /\ CanCall(cpu)
  /\ IF ~in_root_cell(cpu)
       THEN /\ hc' = Returned("DISABLE", cpu, 0, {}, "EPERM", 0)
            /\ UNCHANGED <<shutdown_state, cpu_mode>>
       ELSE IF shutdown_state[cpu] = "NONE"
         THEN /\ hc' = [Idle EXCEPT !.op = "DISABLE", !.cpu = cpu,
                          !.stage = "disable", !.idx = 1, !.state = "STARTED"]
              /\ UNCHANGED <<shutdown_state, cpu_mode>>
         ELSE /\ shutdown_return(cpu, shutdown_state, {})
              /\ cpu_mode' = IF shutdown_state[cpu] = "STARTED"
                               THEN [cpu_mode EXCEPT ![cpu] = "off"] ELSE cpu_mode
  /\ UNCHANGED <<root_cpu_set, root_map, cells, num_cells, used_pages, cpu_cell,
                 failed, suspended, in_hypercall>>
  /\ pre' = NoSnap

\* cell_shutdown_ok(cell) of line 640 writes its request
disable_send ==
  /\ hc.stage = "disable"
  /\ hc.idx <= Len(cells)
  /\ cells' = [cells EXCEPT ![hc.idx] =
                 cell_send_message_write(cells[hc.idx], "SHUTDOWN_REQUEST")]
  /\ hc' = [hc EXCEPT !.stage = "disable_poll"]
  /\ UNCHANGED <<root_cpu_set, root_map, num_cells, used_pages, cpu_cell, failed,
                 shutdown_state, in_hypercall, cpu_mode, suspended, pre>>

\* ... and its poll loop ends
disable_poll ==
  /\ hc.stage = "disable_poll"
  /\ cell_send_message_poll(cells[hc.idx], "MSG_REQUEST") # "again"
  /\ hc' = [hc EXCEPT !.stage = "disable", !.idx = hc.idx + 1,
              !.state = IF cell_send_message_poll(cells[hc.idx], "MSG_REQUEST") = "false"
                          THEN "EPERM" ELSE hc.state]
  /\ UNCHANGED <<root_cpu_set, root_map, cells, num_cells, used_pages, cpu_cell,
                 failed, shutdown_state, in_hypercall, cpu_mode, suspended, pre>>

\* lines 643-676: the tear-down when every cell agreed, the stamps, the return
disable_done ==
  /\ hc.stage = "disable"
  /\ hc.idx > Len(cells)
  /\ LET down == hc.state = "STARTED"
         cpus == IF down THEN NonRootCpus(cells) ELSE {}
         stamps == [c \in CPUS |-> IF c \in root_cpu_set THEN hc.state
                                   ELSE shutdown_state[c]]
     IN /\ cpu_mode' = [c \in CPUS |-> IF c \in cpus \/ (down /\ c = hc.cpu)
                                         THEN "off" ELSE cpu_mode[c]]
        /\ suspended' = suspended \ cpus
        /\ shutdown_return(hc.cpu, stamps, cpus)
  /\ UNCHANGED <<root_cpu_set, root_map, cells, num_cells, used_pages, cpu_cell,
                 failed, pre, in_hypercall>>

(* -------------------------------- panic -------------------------------- *)
\* variant: the scan of lines 774-778 stops at the first CPU of the set
cell_failed_first(cpu_set, pfailed) ==
  \A c \in cpu_set : (\A d \in cpu_set : c <= d) => pfailed[c]

\* variant: the scan finds a failed CPU
cell_failed_some(cpu_set, pfailed) == \E c \in cpu_set : pfailed[c]

\* lines 768-778: no CPU of the set is found that has not failed
cell_failed(cpu_set, pfailed) == \A c \in cpu_set : pfailed[c]

\* panic_halt on a CPU that runs its cell's code; the communication page of
\* the root cell is not part of the state, so the FAILED of a root cell whose
\* CPUs have all failed is not recorded
panic_halt(cpu) ==
  /\ cpu_mode[cpu] = "running"
  /\ cpu \notin suspended
  /\ hc.stage # "ret"
  /\ hc.stage = "idle" \/ hc.cpu # cpu
  /\ failed' = [failed EXCEPT ![cpu] = TRUE]
  /\ cells' = [i \in DOMAIN cells |->
                IF cells[i].addr = cpu_cell[cpu] /\ cell_failed(cells[i].cpu_set, failed')
                  THEN [cells[i] EXCEPT !.cell_state = "FAILED"]
                  ELSE cells[i]]
  /\ cpu_mode' = [cpu_mode EXCEPT ![cpu] = "halted"]
  /\ UNCHANGED <<root_cpu_set, root_map, num_cells, used_pages, cpu_cell,
                 shutdown_state, in_hypercall, suspended, hc, pre>>

(* ------------------------------- guests -------------------------------- *)
\* a cell executes guest code when one of its CPUs runs and is not stopped
\* (only a CPU of the system executes anything); the return of a hypercall is
\* an instant, guest steps come before or after it
GuestRuns(cell) ==
  /\ hc.stage # "ret"
  /\ \E cpu \in cell.cpu_set \cap CPUS :
       cpu_mode[cpu] = "running" /\ cpu \notin suspended /\ ~failed[cpu]

\* the guest answers the message in its communication page
GuestReply(i, reply) ==
  /\ GuestRuns(cells[i])
  /\ cells[i].msg_to_cell # "NONE"
  /\ cells[i].reply_from_cell = "NONE"
  /\ cells' = [cells EXCEPT ![i].reply_from_cell = reply, ![i].msg_to_cell = "NONE"]
  /\ UNCHANGED <<root_cpu_set, root_map, num_cells, used_pages, cpu_cell, failed,
                 shutdown_state, in_hypercall, cpu_mode, suspended, hc, pre>>

\* the guest reports a new cell state
GuestSetState(i, state) ==
  /\ GuestRuns(cells[i])
  /\ cells[i].cell_state # state
  /\ cells' = [cells EXCEPT ![i].cell_state = state]
  /\ UNCHANGED <<root_cpu_set, root_map, num_cells, used_pages, cpu_cell, failed,
                 shutdown_state, in_hypercall, cpu_mode, suspended, hc, pre>>

\* the trap returns to the guest
Return ==
  /\ hc.stage = "ret"
  /\ hc' = Idle
  /\ UNCHANGED <<root_cpu_set, root_map, cells, num_cells, used_pages, cpu_cell,
                 failed, shutdown_state, in_hypercall, cpu_mode, suspended, pre>>

(* ---------------------------- specifications -------------------------- *)
\* the CPUs that can issue a hypercall now
Callers == {cpu \in CPUS : CanCall(cpu)}

\* the arch failures a CELL_CREATE can meet: none is reached when the caller
\* is refused or when the allocator fails first
CreatePlans(cpu, c, env, Kinds) ==
  IF env = "none" /\ in_root_cell(cpu) THEN FaultPlans(Configs[c].mem, Kinds)
  ELSE {{}}

\* the cell lifecycle hypercalls; Cfgs are the configurations CELL_CREATE is
\* given, Env and Kinds are the failures of the environment and of the
\* architecture calls that may happen
LifecycleStepOf(Cfgs, Env, Kinds) ==
  \/ \E cpu \in Callers, c \in Cfgs, env \in Env :
       \E F \in CreatePlans(cpu, c, env, Kinds) : cell_create(cpu, c, env, F)
  \/ \E task \in {"CELL_START", "CELL_SET_LOADABLE", "CELL_DESTROY"} :
       \E cpu \in Callers, id \in CellIds : cell_management_prologue(task, cpu, id)
  \/ prologue_denied
  \/ \E F \in FaultPlans(TargetMem, Kinds \cap {1}) : cell_start(F)
  \/ \E F \in FaultPlans(TargetMem, Kinds \cap {3}) : cell_set_loadable(F)
  \/ \E F \in FaultPlans(TargetMem, Kinds \cap {3}) : cell_destroy(F)
  \/ reconfig_send
  \/ reconfig_poll
  \/ reconfig_done

LifecycleStep(Env, Kinds) == LifecycleStepOf(ConfigIds, Env, Kinds)

InfoStep ==
  \/ \E cpu \in Callers, id \in CellIds : cell_get_state(cpu, id)
  \/ \E cpu \in Callers, type \in 1..3 : hypervisor_get_info(cpu, type)

ShutdownStep ==
  \/ \E cpu \in Callers : shutdown(cpu)
  \/ disable_send
  \/ disable_poll
  \/ disable_done

GuestStep ==
  \/ \E i \in DOMAIN cells, reply \in Replies \ {"NONE"} : GuestReply(i, reply)
  \/ \E i \in DOMAIN cells, state \in CellStates : GuestSetState(i, state)

\* the lifecycle and the query hypercalls, with every failure of the environment
Next ==
  \/ LifecycleStep(CreateFaults, {1, 2, 3})
  \/ InfoStep
  \/ GuestStep
  \/ Return

Spec == Init /\ [][Next]_vars

\* every hypercall, with an environment that does not fail
NextHv ==
  \/ LifecycleStep({"none"}, {})
  \/ InfoStep
  \/ ShutdownStep
  \/ GuestStep
  \/ Return

SpecHv == Init /\ [][NextHv]_vars

PanicStep == \E cpu \in CPUS : panic_halt(cpu)

\* the guests of the panic specification leave the report of a failure to
\* the hypervisor
GuestStepAlive ==
  \/ \E i \in DOMAIN cells, reply \in Replies \ {"NONE"} : GuestReply(i, reply)
  \/ \E i \in DOMAIN cells, state \in CellStates \ {"FAILED"} : GuestSetState(i, state)

\* the lifecycle hypercalls interleaved with panics of CPUs, with an
\* environment that does not fail
NextPanic ==
  \/ LifecycleStepOf(PanicConfigIds, {"none"}, {})
  \/ PanicStep
  \/ GuestStepAlive
  \/ Return

SpecPanic == Init /\ [][NextPanic]_vars

\* the lifecycle hypercalls on configurations with an inline and with an
\* allocated CPU set, with every failure of the allocator and of the arch
\* calls of CELL_CREATE
NextPool ==
  \/ LifecycleStepOf(PoolConfigIds, CreateFaults, {1, 2})
  \/ GuestStep
  \/ Return

SpecPool == Init /\ [][NextPool]_vars

(* --------------------------- concurrent traps -------------------------- *)
\* the hypercall codes of the specification with concurrent traps
LifecycleCodes == {"CELL_CREATE", "CELL_START", "CELL_SET_LOADABLE", "CELL_DESTROY"}
QueryCodes == {"CELL_GET_STATE", "CPU_GET_INFO"}

\* a CPU that executes guest code traps into hypercall() with this code
hypercall(cpu, code) ==
  /\ cpu_mode[cpu] = "running"
  /\ cpu \notin suspended
  /\ in_hypercall[cpu] = "none"
  /\ hc.stage # "ret"
  /\ Cardinality({x \in CPUS : in_hypercall[x] # "none"}) < MaxTrapped
  /\ in_hypercall' = [in_hypercall EXCEPT ![cpu] = code]
  /\ UNCHANGED <<root_cpu_set, root_map, cells, num_cells, used_pages, cpu_cell,
                 failed, shutdown_state, cpu_mode, suspended, hc, pre>>

\* cell_get_state and cpu_get_info from any CPU, and a lifecycle hypercall
\* from a CPU that is not in the root cell, read and return: nothing is
\* suspended and nothing is written
hypercall_reads(cpu) ==
  /\ in_hypercall[cpu] # "none"
  /\ in_hypercall[cpu] \in QueryCodes \/ ~in_root_cell(cpu)
  /\ hc.stage # "ret"
  /\ in_hypercall' = [in_hypercall EXCEPT ![cpu] = "none"]
  /\ UNCHANGED <<root_cpu_set, root_map, cells, num_cells, used_pages, cpu_cell,
                 failed, shutdown_state, cpu_mode, suspended, hc, pre>>

\* the lifecycle hypercall of a root CPU returns to the guest
hypercall_return ==
  /\ hc.stage = "ret"
  /\ hc' = Idle
  /\ in_hypercall' = [in_hypercall EXCEPT ![hc.cpu] = "none"]
  /\ UNCHANGED <<root_cpu_set, root_map, cells, num_cells, used_pages, cpu_cell,
                 failed, shutdown_state, cpu_mode, suspended, pre>>

\* the root CPUs inside a lifecycle hypercall whose cell_suspend(&root_cell)
\* returns
RootSuspenders ==
  {cpu \in Callers :
     /\ in_root_cell(cpu)
     /\ in_hypercall[cpu] \in LifecycleCodes
     /\ arch_suspend_cpu(cell_suspend(root_cpu_set, cpu))}

\* cell_suspend(cell) of line 477 returns for the hypercall in progress
TargetSuspended ==
  /\ hc.target \in CellAddrs(cells)
  /\ arch_suspend_cpu(cell_suspend(cells[CellIndex(cells, hc.target)].cpu_set, hc.cpu))

\* the lifecycle hypercalls of root CPUs that have trapped concurrently
SmpLifecycleStep ==
  \/ \E cpu \in RootSuspenders, c \in SmpConfigIds :
       in_hypercall[cpu] = "CELL_CREATE" /\ cell_create(cpu, c, "none", {})
  \/ \E cpu \in RootSuspenders, id \in CellIds :
       /\ in_hypercall[cpu] \in LifecycleCodes \ {"CELL_CREATE"}
       /\ cell_management_prologue(in_hypercall[cpu], cpu, id)
  \/ prologue_denied
  \/ TargetSuspended /\ cell_start({})
  \/ TargetSuspended /\ cell_set_loadable({})
  \/ TargetSuspended /\ cell_destroy({})
  \/ reconfig_send
  \/ reconfig_poll
  \/ reconfig_done

\* hypercalls issued concurrently by several CPUs, with an environment that
\* does not fail
NextSmp ==
  \/ \E cpu \in CPUS, code \in LifecycleCodes \cup QueryCodes : hypercall(cpu, code)
  \/ \E cpu \in CPUS : hypercall_reads(cpu)
  \/ SmpLifecycleStep
  \/ GuestStep
  \/ hypercall_return

SpecSmp == Init /\ [][NextSmp]_vars

\* a CPU inside the hypervisor executes it to the end: each step of a
\* hypercall that can be taken is taken; and every guest answers the message
\* in its communication page.  Guests are free never to trap and never to
\* change their state.  The request of arch_suspend_cpu stays pending: a
\* target that leaves its hypercall is stopped before it can trap again, so a
\* cell_suspend that can return again and again does return (strong fairness
\* of the steps of each CPU's lifecycle hypercall).
FairnessSmp ==
  /\ \A cpu \in CPUS : WF_vars(hypercall_reads(cpu))
  /\ \A cpu \in CPUS : SF_vars(SmpLifecycleStep /\ hc'.cpu = cpu)
  /\ WF_vars(hypercall_return)
  /\ WF_vars(\E i \in DOMAIN cells, reply \in Replies \ {"NONE"} : GuestReply(i, reply))

\* concurrent hypercalls with progress of the hypervisor and of the guests
SpecSmpFair == SpecSmp /\ FairnessSmp

(* ------------------------------ properties ----------------------------- *)
\* the cell list: position 0 is the root cell, position i > 0 is cells[i]
Positions == 0..Len(cells)
CpuSetAt(i) == IF i = 0 THEN root_cpu_set ELSE cells[i].cpu_set
AddrAt(i) == IF i = 0 THEN RootAddr ELSE cells[i].addr
IdAt(i) == IF i = 0 THEN RootCell.id ELSE cells[i].id
NameAt(i) == IF i = 0 THEN RootCell.name ELSE Configs[cells[i].cfg].name
MapAt(i) == IF i = 0 THEN root_map ELSE cells[i].map

LifecycleOps == {"CELL_CREATE", "CELL_START", "CELL_SET_LOADABLE", "CELL_DESTROY"}
ManageOps == {"CELL_START", "CELL_SET_LOADABLE", "CELL_DESTROY"}

\* a hypercall has just returned err
Ret(op, err) == hc.stage = "ret" /\ hc.op = op /\ hc.err = err

\* C1: every valid CPU id is in the CPU set of exactly one cell of the list
\* (the root cell included), and the CPU's per-CPU cell pointer names that cell.
C1_CpuInExactlyOneCell ==
  \A cpu \in CPUS :
    \E i \in Positions :
      /\ cpu \in CpuSetAt(i)
      /\ \A j \in Positions : cpu \in CpuSetAt(j) => j = i
      /\ cpu_cell[cpu] = AddrAt(i)

\* a cell was destroyed while another one keeps its CPU
C1_Witness ==
  /\ Ret("CELL_DESTROY", "OK")
  /\ Len(cells) = 1
  /\ cells[1].cpu_set # {}
  /\ root_cpu_set = CPUS \ cells[1].cpu_set

\* the configurations that pass the validation of CELL_CREATE
ValidConfigs ==
  {c \in ConfigIds :
     /\ Configs[c].name # RootCell.name
     /\ Configs[c].cfg_pages <= NUM_TEMPORARY_PAGES
     /\ Configs[c].cpu_set_size <= PAGE_SIZE
     /\ Configs[c].cpus \subseteq CPUS
     /\ check_mem_regions(Configs[c]) = "OK"}

\* the physical pages of a region, the physical pages a mapping reaches
RegionPhys(mem) == {mem.phys_start + k : k \in 0..(mem.size - 1)}
PhysOf(map) == {p[2] : p \in map}

\* the positions of the cells created from configuration c
Owner(c) == {i \in DOMAIN cells : cells[i].cfg = c}

\* C2: every region of a non-root cell configuration other than a COMM_REGION
\* is mapped into exactly one cell; that cell is the root cell iff the owning
\* cell is loadable and the region is LOADABLE, or the owning cell does not
\* exist.
C2_RegionInExactlyOneCell ==
  \A c \in ValidConfigs : \A n \in DOMAIN Configs[c].mem :
    LET mem == Configs[c].mem[n]
        holders == {i \in Positions : RegionPhys(mem) \cap PhysOf(MapAt(i)) # {}}
    IN "COMM_REGION" \notin mem.flags =>
         /\ Cardinality(holders) = 1
         /\ \A i \in holders : RegionPhys(mem) \subseteq PhysOf(MapAt(i))
         /\ 0 \in holders <=>
              \/ Owner(c) = {}
              \/ \E i \in Owner(c) : cells[i].loadable /\ "LOADABLE" \in mem.flags

\* region n of the cell at position i is mapped in that cell
MappedInOwner(i, n) ==
  RegionPages(ArchRegion(cells[i].addr, Configs[cells[i].cfg].mem[n]))
    \subseteq cells[i].map

\* C3 as stated, for the cells that exist: a region without LOADABLE (and not
\* the COMM_REGION, which root memory never backs) is mapped in its owning cell
\* iff the cell is not loadable; otherwise it is mapped in the root cell.
C3_PlainRegionLeavesLoadableCell ==
  \A i \in DOMAIN cells : \A n \in DOMAIN Configs[cells[i].cfg].mem :
    LET mem == Configs[cells[i].cfg].mem[n] IN
    mem.flags \cap {"LOADABLE", "COMM_REGION"} = {} =>
      /\ MappedInOwner(i, n) <=> ~cells[i].loadable
      /\ cells[i].loadable
           => RegionPages([mem EXCEPT !.virt_start = mem.phys_start]) \subseteq root_map

\* C3 amended: a region without LOADABLE is mapped in its owning cell for as
\* long as the cell exists, whether the cell is loadable or not.
C3_PlainRegionStaysInCell ==
  \A i \in DOMAIN cells : \A n \in DOMAIN Configs[cells[i].cfg].mem :
    "LOADABLE" \notin Configs[cells[i].cfg].mem[n].flags => MappedInOwner(i, n)

\* a loadable cell whose configuration has a region without LOADABLE
C3_Witness ==
  /\ Ret("CELL_SET_LOADABLE", "OK")
  /\ \E i \in DOMAIN cells :
       /\ cells[i].loadable
       /\ \E n \in DOMAIN Configs[cells[i].cfg].mem :
            /\ Configs[cells[i].cfg].mem[n].flags \cap {"LOADABLE", "COMM_REGION"} = {}
            /\ MappedInOwner(i, n)

\* C4: the ids of the cells of the list are pairwise distinct, so are their
\* names, and num_cells, which HYPERVISOR_GET_INFO returns, is the length of
\* the list with the root cell counted.
C4_IdsNamesCount ==
  /\ \A i, j \in Positions : i # j => IdAt(i) # IdAt(j) /\ NameAt(i) # NameAt(j)
  /\ num_cells = Len(cells) + 1
  /\ Ret("HYPERVISOR_GET_INFO", "OK") /\ hc.arg = 2 => hc.val = Len(cells) + 1

\* the cell count is read while the list holds a cell created after a
\* lower-numbered one was destroyed
C4_Witness ==
  /\ Ret("HYPERVISOR_GET_INFO", "OK")
  /\ hc.arg = 2
  /\ Len(cells) = 2
  /\ cells[1].id > cells[2].id

\* what the lifecycle hypercalls manage of a cell: everything but the message
\* slot of its communication page
CellView(cell) ==
  [addr |-> cell.addr, id |-> cell.id, cfg |-> cell.cfg, cpu_set |-> cell.cpu_set,
   loadable |-> cell.loadable, cell_state |-> cell.cell_state, map |-> cell.map]

\* the cell list, num_cells, the CPU sets, the per-CPU cell pointers, the
\* loadable flags, the cell states and the memory mappings
Managed ==
  <<[i \in DOMAIN cells |-> CellView(cells[i])], num_cells, root_cpu_set, cpu_cell,
    root_map>>

\* C5: a lifecycle hypercall that returns a negative error code leaves the
\* cell list, num_cells, every CPU set, every per-CPU cell pointer, every
\* loadable flag, every cell_state and every memory mapping as they were:
\* neither the step that enters the handshake nor the step that returns the
\* error changes any of them.
C5_FailedCallChangesNothing ==
  [][/\ hc.stage = "idle" /\ hc'.stage = "shutdown_ok" => Managed' = Managed
     /\ (/\ hc.stage # "ret"
         /\ hc'.stage = "ret"
         /\ hc'.op \in LifecycleOps
         /\ hc'.err # "OK") => Managed' = Managed]_vars

\* C6: a CELL_DESTROY that succeeds right after the successful CELL_CREATE of
\* the same cell leaves the root cell's CPU set and memory map as they were
\* before the create.
C6_CreateDestroyRestoresRoot ==
  Ret("CELL_DESTROY", "OK") /\ pre.op = "CELL_CREATE" /\ pre.id = hc.arg
    => root_cpu_set = pre.root_cpu_set /\ root_map = pre.root_map

\* everything but the hypercall record and the history
Machine ==
  <<root_cpu_set, root_map, cells, num_cells, used_pages, cpu_cell, failed,
    shutdown_state, cpu_mode, suspended>>

\* C7: CELL_CREATE, CELL_START, CELL_SET_LOADABLE, CELL_DESTROY, CELL_GET_STATE
\* and DISABLE from a CPU that is not in the root cell return EPERM in one
\* step that suspends no CPU, writes no message and changes nothing.
C7_NonRootCallerRefused ==
  [][(/\ hc.stage = "idle"
      /\ hc'.stage # "idle"
      /\ cpu_cell[hc'.cpu] # RootAddr
      /\ hc'.op \in LifecycleOps \cup {"CELL_GET_STATE", "DISABLE"})
       => /\ hc'.stage = "ret"
          /\ hc'.err = "EPERM"
          /\ hc'.susp = {}
          /\ Machine' = Machine]_vars

\* a CPU of a started cell asked for the shutdown of the hypervisor
C7_Witness ==
  /\ Ret("DISABLE", "EPERM")
  /\ cpu_cell[hc.cpu] # RootAddr
  /\ \E i \in DOMAIN cells : hc.cpu \in cells[i].cpu_set /\ cells[i].cell_state = "RUNNING"

\* the cell the management hypercall in progress waits for
Target == cells[CellIndex(cells, hc.target)]

\* C8: the request of a management hypercall is written unless the target is
\* passive; the hypercall then acts on the target only when the target is
\* passive, reports SHUT_DOWN or FAILED, or has replied REQUEST_APPROVED; with
\* none of these a reply other than NONE ends it with EPERM and the target
\* untouched, and with the reply NONE the hypervisor does not move.
C8_ActsOnlyOnAcceptedRequest ==
  [][/\ hc.stage = "idle" /\ hc'.stage = "shutdown_ok" =>
          cells' = [cells EXCEPT ![CellIndex(cells, hc'.target)] =
                      IF Configs[@.cfg].passive THEN @
                      ELSE [@ EXCEPT !.msg_to_cell = "SHUTDOWN_REQUEST",
                                     !.reply_from_cell = "NONE"]]
     /\ hc.stage = "shutdown_ok" /\ hc.op \in ManageOps /\ hc' # hc =>
          LET accepted == \/ Configs[Target.cfg].passive
                          \/ Target.cell_state \in {"SHUT_DOWN", "FAILED"}
                          \/ Target.reply_from_cell = "REQUEST_APPROVED"
              refused == /\ hc'.stage = "ret"
                         /\ hc'.err = "EPERM"
                         /\ UNCHANGED <<cells, root_map, root_cpu_set, cpu_cell,
                                        cpu_mode, failed>>
          IN IF accepted THEN ~refused
             ELSE Target.reply_from_cell # "NONE" /\ refused]_vars

\* SET_LOADABLE went through on the approval of a cell that was running
C8_Witness ==
  /\ Ret("CELL_SET_LOADABLE", "OK")
  /\ \E i \in DOMAIN cells :
       /\ cells[i].id = hc.arg
       /\ ~Configs[cells[i].cfg].passive
       /\ cells[i].reply_from_cell = "REQUEST_APPROVED"
       /\ cells[i].loadable

\* some cell other than the one with this id reports RUNNING_LOCKED
LockedBeside(id) ==
  \E i, j \in DOMAIN cells :
    i # j /\ cells[i].id = id /\ cells[j].cell_state = "RUNNING_LOCKED"

\* C9: CELL_CREATE while a non-root cell reports RUNNING_LOCKED, and
\* CELL_DESTROY of an existing cell while another non-root cell reports
\* RUNNING_LOCKED, return EPERM and change nothing; the root CPUs the call
\* suspended are running again when it returns.
C9_LockedCellVetoes ==
  [][(/\ hc.stage = "idle"
      /\ hc'.stage # "idle"
      /\ \/ /\ hc'.op = "CELL_CREATE"
            /\ \E i \in DOMAIN cells : cells[i].cell_state = "RUNNING_LOCKED"
         \/ hc'.op = "CELL_DESTROY" /\ LockedBeside(hc'.arg))
       => /\ hc'.stage = "ret"
          /\ hc'.err = "EPERM"
          /\ cpu_cell[hc'.cpu] = RootAddr => hc'.susp = root_cpu_set \ {hc'.cpu}
          /\ suspended' \cap root_cpu_set = {}
          /\ UNCHANGED <<cells, root_cpu_set, root_map, num_cells, used_pages,
                         cpu_cell, failed, cpu_mode>>]_vars

\* the root cell was refused the destruction of one cell because of another
C9_Witness ==
  /\ Ret("CELL_DESTROY", "EPERM")
  /\ cpu_cell[hc.cpu] = RootAddr
  /\ hc.susp # {}
  /\ LockedBeside(hc.arg)

\* the step that ends the handshake of a CELL_DESTROY whose target reports
\* RUNNING_LOCKED
DestroyOfLockedDecided ==
  /\ hc.stage = "shutdown_ok"
  /\ hc.op = "CELL_DESTROY"
  /\ hc' # hc
  /\ Target.cell_state = "RUNNING_LOCKED"

\* the call returns EPERM, the cell stays, the root CPUs it suspended run again
DestroyRefused ==
  /\ hc'.stage = "ret"
  /\ hc'.err = "EPERM"
  /\ hc'.susp = root_cpu_set \ {hc.cpu}
  /\ suspended' \cap root_cpu_set = {}
  /\ UNCHANGED <<cells, root_cpu_set, root_map, num_cells, used_pages, cpu_cell,
                 failed, cpu_mode>>

C11_SetLoadableIdempotent ==
  [][/\ (/\ hc.stage = "idle"
         /\ hc'.stage = "shutdown_ok"
         /\ hc'.op = "CELL_SET_LOADABLE"
         /\ cells[CellIndex(cells, hc'.target)].loadable) => Managed' = Managed
     /\ (/\ hc.stage = "shutdown_ok"
         /\ hc.op = "CELL_SET_LOADABLE"
         /\ Target.loadable
         /\ hc' # hc)
          => /\ hc'.stage = "ret"
             /\ hc'.err = "OK"
             /\ root_map' = root_map
             /\ cells' = cells]_vars

\* the second CELL_SET_LOADABLE in a row on a cell has returned 0: the first
\* one left its snapshot, the second one dropped it
C11_Witness ==
  /\ Ret("CELL_SET_LOADABLE", "OK")
  /\ pre = NoSnap
  /\ \E i \in DOMAIN cells : cells[i].id = hc.arg /\ cells[i].loadable

\* C12: when a CELL_START succeeds right after the successful
\* CELL_SET_LOADABLE of the same cell, the cell is no longer loadable, each
\* of its LOADABLE regions is out of the root cell's mapping and still in
\* the cell's, the root cell's mapping is the one before the
\* CELL_SET_LOADABLE, the cell reports RUNNING and its message slot is NONE.
C12_StartReversesSetLoadable ==
  Ret("CELL_START", "OK") /\ pre.op = "CELL_SET_LOADABLE" /\ pre.id = hc.arg
    => \A i \in DOMAIN cells :
         cells[i].addr = pre.addr
           => /\ ~cells[i].loadable
              /\ \A n \in DOMAIN Configs[cells[i].cfg].mem :
                   LET mem == Configs[cells[i].cfg].mem[n]
                   IN "LOADABLE" \in mem.flags
                        => /\ PhysOf(root_map) \cap RegionPhys(mem) = {}
                           /\ RegionPages(mem) \subseteq cells[i].map
              /\ root_map = pre.root_map
              /\ cells[i].cell_state = "RUNNING"
              /\ cells[i].msg_to_cell = "NONE"

\* a root CPU traps into DISABLE in this step
DisableCall ==
  /\ hc.stage = "idle"
  /\ hc'.stage # "idle"
  /\ hc'.op = "DISABLE"
  /\ cpu_cell[hc'.cpu] = RootAddr

\* the step in which the initiating DISABLE ends its rendezvous
DisableDecided == hc.stage = "disable" /\ hc'.stage = "ret"

\* the CPUs that are not in the root cell's CPU set
GuestCpus == CPUS \ root_cpu_set

C14_ShutdownRefusal ==
  [][/\ (hc.stage = "disable_poll" /\ hc' # hc)
          => hc'.state =
               IF \/ cell_send_message_poll(cells[hc.idx], "MSG_REQUEST") = "false"
                  \/ hc.state = "EPERM"
                 THEN "EPERM" ELSE "STARTED"
     /\ (DisableDecided /\ hc.state = "EPERM")
          => /\ hc'.err = "EPERM"
             /\ shutdown_state' =
                  [c \in CPUS |-> IF c \in root_cpu_set \ {hc.cpu} THEN "EPERM"
                                  ELSE IF c = hc.cpu THEN "NONE"
                                  ELSE shutdown_state[c]]
             /\ UNCHANGED <<cells, cpu_mode, suspended, root_cpu_set, root_map,
                            cpu_cell>>
     /\ (DisableCall /\ shutdown_state[hc'.cpu] = "EPERM")
          => /\ hc'.stage = "ret"
             /\ hc'.err = "EPERM"
             /\ shutdown_state' = [shutdown_state EXCEPT ![hc'.cpu] = "NONE"]
             /\ UNCHANGED <<cells, cpu_mode, suspended, root_cpu_set, root_map,
                            cpu_cell>>
     /\ (DisableCall /\ shutdown_state[hc'.cpu] = "NONE") => hc'.stage = "disable"]_vars

\* a root CPU was refused by the stamp another root CPU's DISABLE left, while
\* the cell that refused has gone
C14_Witness ==
  /\ Ret("DISABLE", "EPERM")
  /\ cpu_cell[hc.cpu] = RootAddr
  /\ hc.susp = {}
  /\ shutdown_state[hc.cpu] = "NONE"
  /\ cells = << >>

C20_PanicHaltMarksCell ==
  [][\A cpu \in CPUS :
       cpu_mode[cpu] # "halted" /\ cpu_mode'[cpu] = "halted"
         => /\ failed' = [failed EXCEPT ![cpu] = TRUE]
            /\ cells' = [i \in DOMAIN cells |->
                           IF cpu \in cells[i].cpu_set
                              /\ \A c \in cells[i].cpu_set : failed'[c]
                             THEN [cells[i] EXCEPT !.cell_state = "FAILED"]
                             ELSE cells[i]]]_vars

\* one CPU of a running two-CPU cell has halted, the cell runs on the other
C20_Witness ==
  \E i \in DOMAIN cells :
    /\ Cardinality(cells[i].cpu_set) = 2
    /\ cells[i].cell_state = "RUNNING"
    /\ \E c, d \in cells[i].cpu_set :
         /\ failed[c] /\ cpu_mode[c] = "halted"
         /\ ~failed[d] /\ cpu_mode[d] = "running"

\* the ids on the cell list, the root cell's included
UsedIds == {IdAt(i) : i \in Positions}

\* the step in which a CELL_CREATE has put its cell on the list
CreateDone ==
  hc.stage = "idle" /\ hc'.stage = "reconfig" /\ hc'.op = "CELL_CREATE"

\* C16: a successful CELL_CREATE gives its cell, and returns, the smallest
\* id that no cell of the list (the root cell, id 0, included) has at that
\* moment, and changes no other cell's id; when the call before was the
\* successful CELL_DESTROY of a cell created by the call before that, the
\* id is the id that cell had.
C16_SmallestFreeId ==
  [][CreateDone
       => /\ hc'.val \notin UsedIds
          /\ \A n \in 0..(hc'.val - 1) : n \in UsedIds
          /\ cells' = Append(cells, cells'[Len(cells')])
          /\ cells'[Len(cells')].id = hc'.val
          /\ IdAt(0) = 0
          /\ (pre.op = "CELL_CREATE" /\ pre.addr \notin CellAddrs(cells))
               => hc'.val = pre.id]_vars

\* a cell that was given the id 1 below the id 2 of an older cell has been
\* destroyed right after its creation
C16_Witness ==
  /\ Ret("CELL_DESTROY", "OK")
  /\ pre.op = "CELL_CREATE"
  /\ pre.id = hc.arg
  /\ pre.id = 1
  /\ Len(cells) = 1
  /\ cells[1].id = 2

\* C17: a CELL_CREATE that fails leaves the used-page count of the main pool
\* as it was, and when a CELL_DESTROY succeeds right after the successful
\* CELL_CREATE of the same cell the used-page count is the one before the
\* create.
C17_PagesBalanced ==
  [][/\ (/\ hc.stage = "idle"
         /\ hc'.stage = "ret"
         /\ hc'.op = "CELL_CREATE"
         /\ hc'.err # "OK") => used_pages' = used_pages
     /\ (/\ hc.stage = "reconfig"
         /\ hc'.stage = "ret"
         /\ hc.op = "CELL_DESTROY"
         /\ pre.op = "CELL_CREATE"
         /\ pre.id = hc.arg) => used_pages' = pre.used_pages]_vars

\* C18: when CELL_CREATE, CELL_START, CELL_SET_LOADABLE or CELL_DESTROY
\* returns, with success or with an error, none of the CPUs the call
\* suspended (the other root CPUs and, after the prologue, the CPUs of the
\* target cell) is still suspended.
C18_NoCpuLeftSuspended ==
  hc.stage = "ret" /\ hc.op \in LifecycleOps => hc.susp \cap suspended = {}

\* the cell list links, num_cells, the CPU sets, the per-CPU cell pointers
\* and the memory mappings
Structure ==
  <<[i \in DOMAIN cells |-> <<cells[i].addr, cells[i].cpu_set, cells[i].map>>],
    num_cells, root_cpu_set, cpu_cell, root_map>>

\* a root CPU is between the root-suspend step and the final resume of a
\* lifecycle hypercall
InLifecycle == hc.stage \notin {"idle", "ret"} /\ hc.op \in LifecycleOps

\* C19: while a root CPU is between the root-suspend step and the final
\* resume of a lifecycle hypercall, every other root CPU is outside of every
\* hypercall and executes nothing (it is suspended, or parked on its way back
\* from a destroyed cell), so no second root CPU can be past its own
\* root-suspend step; and a step that changes the cell list, num_cells, a CPU
\* set, a per-CPU cell pointer or a memory mapping is taken while no root CPU
\* other than the one that takes it is inside a hypercall.
C19_RootSuspensionExcludes ==
  /\ [](InLifecycle =>
          /\ in_hypercall[hc.cpu] = hc.op
          /\ \A x \in root_cpu_set \ {hc.cpu} :
               /\ in_hypercall[x] = "none"
               /\ x \in suspended \/ cpu_mode[x] # "running")
  /\ [](\A x \in root_cpu_set :
          (/\ in_hypercall[x] \in LifecycleOps
           /\ \A y \in root_cpu_set \ {x} : in_hypercall[y] = "none"
           /\ hc.stage # "idle") => hc.cpu = x)
  /\ [][Structure' # Structure =>
          \A x \in (root_cpu_set \cup root_cpu_set') \ {hc'.cpu} :
            in_hypercall[x] = "none"]_vars

\* a root CPU has trapped into CELL_DESTROY and cannot suspend the root cell:
\* another root CPU is inside CELL_GET_STATE
C19_Witness ==
  /\ hc.stage = "idle"
  /\ cells # << >>
  /\ \E x, y \in root_cpu_set :
       /\ in_hypercall[x] = "CELL_DESTROY"
       /\ in_hypercall[y] = "CELL_GET_STATE"
       /\ x \notin RootSuspenders

\* the root CPU x has trapped into a lifecycle hypercall and spins in
\* cell_suspend(&root_cell) (lines 305, 454): arch_suspend_cpu waits for the
\* root CPU y, which is inside a hypercall of its own
WaitsFor(x, y) ==
  /\ x # y
  /\ x \in root_cpu_set /\ y \in root_cpu_set
  /\ in_hypercall[x] \in LifecycleCodes
  /\ (hc.stage = "idle" \/ hc.cpu # x)
  /\ in_hypercall[y] # "none"

\* two root CPUs wait for each other in cell_suspend(&root_cell)
MutualWait == \E x, y \in CPUS : WaitsFor(x, y) /\ WaitsFor(y, x)

\* every lifecycle hypercall of a root CPU eventually returns
HypercallsReturn ==
  \A cpu \in CPUS :
    (cpu \in root_cpu_set /\ in_hypercall[cpu] \in LifecycleCodes)
      ~> (in_hypercall[cpu] = "none")

\* C21: when root CPUs issue CELL_CREATE, CELL_START, CELL_SET_LOADABLE or
\* CELL_DESTROY concurrently, the hypervisor makes progress on every CPU and
\* every guest answers its messages, each of these hypercalls eventually
\* returns, and no state is reached in which two root CPUs wait for each
\* other in cell_suspend(&root_cell).
C21_LifecycleHypercallsReturn ==
  /\ HypercallsReturn
  /\ []~MutualWait

\* a mutual wait never ends: once two root CPUs wait for each other, they do
\* so in every later state
MutualWaitIsStable ==
  [][\A x, y \in CPUS : WaitsFor(x, y) /\ WaitsFor(y, x) =>
                          (WaitsFor(x, y) /\ WaitsFor(y, x))']_vars

\* the mutual wait is the only obstacle: a lifecycle hypercall of a root CPU
\* returns unless two root CPUs end up waiting for each other
ReturnsUnlessMutualWait ==
  \A cpu \in CPUS :
    (cpu \in root_cpu_set /\ in_hypercall[cpu] \in LifecycleCodes)
      ~> (in_hypercall[cpu] = "none" \/ MutualWait)

====
